---- MODULE Spec2Model ----
(***************************************************************************)
(* Model of src/app.py: the statement-section line parser of               *)
(* extract_bmo_transactions, the month-replacing log merge of              *)
(* append_to_log, the keyword and classifier categorization, and a run of  *)
(* main from the document text to the console output.                      *)
(*                                                                         *)
(* Text is modelled as sequences of one-character strings so that the two  *)
(* regular expressions, str.strip, str.rfind, str.split, " ".join and      *)
(* float() are computed, not assumed.  Amounts are integers in cents       *)
(* (float("12.99") is modelled as 1299).                                   *)
(***************************************************************************)
EXTENDS Integers, Sequences, FiniteSets, TLC

VARIABLES
    lines,            \* the stripped non-empty lines of the section (l.185-186)
    i,                \* the shared 0-based line index (l.189)
    pc,               \* "SCANNING" (outer loop), "COLLECTING" (inner loop), "done"
    trans_date,       \* date_match.group(1) of the open cycle (l.203)
    post_date,        \* date_match.group(2) of the open cycle (l.204)
    merchant_lines,   \* fragment buffer of the open cycle (l.208)
    transactions,     \* rows emitted so far (l.188, l.238)
    log_file,         \* bmo_transactions_log.xlsx: whether it exists, and its rows
    new_df,           \* the batch handed to the latest append_to_log call
    existing_df,      \* the ledger as read at l.278 / l.285 by the latest call
    combined_df,      \* the frame of l.294 / l.296 that the latest call sorted
    ret,              \* what the latest call returned: <<>> (None) or <<combined_df, year, month>>
    op,               \* "none", "append" (a call), "reprocess" (the same batch merged again)
    HF_AVAILABLE,     \* whether the import at l.8-12 succeeded
    classifier,       \* the module global of l.16: None or the loaded pipeline
    result,           \* per row of df: whether l.72 was reached and what classifier(...) did
    Category,         \* the column df['Category'] (l.162 / l.165), <<>> while absent
    full_text,        \* the text of the document's pages (l.170-173)
    console,          \* what main printed last: nothing, the debug dump or the summary
    raised,           \* the exception that ended the run, <<>> when none
    reads,            \* how often the log file was read in this run (l.278)
    writes            \* how often the log file was written in this run (l.314)

parserVars == <<lines, i, pc, trans_date, post_date, merchant_lines, transactions>>
parserVars_but_pc == <<lines, i, trans_date, post_date, merchant_lines, transactions>>
mergeVars  == <<log_file, new_df, existing_df, combined_df, ret, op>>
catVars    == <<HF_AVAILABLE, classifier, result, Category>>
runVars    == <<full_text, console, raised, reads, writes>>
vars       == <<lines, i, pc, trans_date, post_date, merchant_lines, transactions,
                log_file, new_df, existing_df, combined_df, ret, op,
                HF_AVAILABLE, classifier, result, Category,
                full_text, console, raised, reads, writes>>

----------------------------------------------------------------------------
(* Characters *)

Upper == {"A","B","C","D","E","F","G","H","I","J","K","L","M",
          "N","O","P","Q","R","S","T","U","V","W","X","Y","Z"}
Lower == {"a","b","c","d","e","f","g","h","i","j","k","l","m",
          "n","o","p","q","r","s","t","u","v","w","x","y","z"}
Digit == {"0","1","2","3","4","5","6","7","8","9"}
\* \s of the regular expressions and the characters str.strip removes
WS    == {" ", "\t"}

DigitVal(c) ==
    CASE c = "0" -> 0 [] c = "1" -> 1 [] c = "2" -> 2 [] c = "3" -> 3
      [] c = "4" -> 4 [] c = "5" -> 5 [] c = "6" -> 6 [] c = "7" -> 7
      [] c = "8" -> 8 [] c = "9" -> 9

\* s[a..b] with Python's tolerance of empty slices
Slice(s, a, b) == IF a > b THEN <<>> ELSE SubSeq(s, a, b)

\* needle in hay (Python's `in` on str)
Contains(hay, needle) ==
    \E p \in 1..(Len(hay) - Len(needle) + 1) :
        SubSeq(hay, p, p + Len(needle) - 1) = needle

\* str.strip()
strip(s) ==
    LET keep == {p \in 1..Len(s) : s[p] \notin WS}
    IN  IF keep = {} THEN <<>>
        ELSE LET a == CHOOSE p \in keep : \A q \in keep : p <= q
                 b == CHOOSE p \in keep : \A q \in keep : q <= p
             IN  SubSeq(s, a, b)

\* str.rfind(sub): highest 0-based index at which sub occurs, -1 when absent
rfind(s, sub) ==
    LET at == {p \in 0..(Len(s) - Len(sub)) : SubSeq(s, p + 1, p + Len(sub)) = sub}
    IN  IF at = {} THEN -1 ELSE CHOOSE p \in at : \A q \in at : q <= p

\* float() of a run of digits, a period and two digits, in cents
RECURSIVE DigitsVal(_)
DigitsVal(ds) ==
    IF ds = <<>> THEN 0
    ELSE 10 * DigitsVal(SubSeq(ds, 1, Len(ds) - 1)) + DigitVal(ds[Len(ds)])

float(num) ==
    LET n == Len(num)
    IN  100 * DigitsVal(SubSeq(num, 1, n - 3)) + DigitsVal(SubSeq(num, n - 1, n))

\* " ".join(parts)
RECURSIVE join(_)
join(parts) ==
    IF parts = <<>> THEN <<>>
    ELSE IF Len(parts) = 1 THEN parts[1]
    ELSE parts[1] \o <<" ">> \o join(Tail(parts))

----------------------------------------------------------------------------
(* The two regular expressions of the parser *)

\* [A-Z][a-z]{2}\. \d{k} at position p of s
IsDateTok(s, p, k) ==
    /\ p >= 1
    /\ p + 4 + k <= Len(s)
    /\ s[p] \in Upper
    /\ s[p + 1] \in Lower
    /\ s[p + 2] \in Lower
    /\ s[p + 3] = "."
    /\ s[p + 4] = " "
    /\ \A q \in (p + 5)..(p + 4 + k) : s[q] \in Digit

\* the ways ^([A-Z][a-z]{2}\. \d{1,2})\s+([A-Z][a-z]{2}\. \d{1,2})$ matches line:
\* <<k1, k2>> are the digit counts of the two groups
DateSplits(line) ==
    {ks \in {1, 2} \X {1, 2} :
        /\ IsDateTok(line, 1, ks[1])
        /\ IsDateTok(line, Len(line) - 4 - ks[2], ks[2])
        /\ Len(line) - 5 - ks[2] >= 6 + ks[1]
        /\ \A q \in (6 + ks[1])..(Len(line) - 5 - ks[2]) : line[q] \in WS}

\* re.match(...) at l.201: <<>> for None, else <<group(1), group(2)>>
date_match(line) ==
    IF DateSplits(line) = {} THEN <<>>
    ELSE LET ks == CHOOSE x \in DateSplits(line) : TRUE
         IN  << SubSeq(line, 1, 5 + ks[1]),
                SubSeq(line, Len(line) - 4 - ks[2], Len(line)) >>

\* the position of the last character of group(1) when (\s+CR)? takes part: the
\* line ends in CR and at least one \s precedes it; 0 otherwise
CrCoreEnd(line) ==
    LET n == Len(line)
    IN  IF n >= 3 /\ line[n - 1] = "C" /\ line[n] = "R" /\ line[n - 2] \in WS
        THEN LET nonws == {p \in 1..(n - 2) : line[p] \notin WS}
             IN  IF nonws = {} THEN 0
                 ELSE CHOOSE p \in nonws : \A q \in nonws : q <= p
        ELSE 0

\* \d+\.\d{2} ending exactly at position e of line; the leftmost start (re.search
\* returns the leftmost match, so \d+ takes the whole run of digits); 0 when none
NumStart(line, e) ==
    IF /\ e >= 4
       /\ line[e] \in Digit /\ line[e - 1] \in Digit
       /\ line[e - 2] = "."
       /\ line[e - 3] \in Digit
    THEN LET starts == {p \in 1..(e - 3) : \A q \in p..(e - 3) : line[q] \in Digit}
         IN  CHOOSE p \in starts : \A q \in starts : p <= q
    ELSE 0

\* the search without its optional credit group: (\d+\.\d{2})$
amount_match_NoCredit(line) ==
    LET sp == NumStart(line, Len(line))
    IN  IF sp > 0
        THEN << SubSeq(line, sp, Len(line)), SubSeq(line, sp, Len(line)), FALSE >>
        ELSE <<>>

\* re.search(r'(\d+\.\d{2})(\s+CR)?$', current_line) at l.219:
\* <<>> for None, else <<group(0), group(1), group(2) took part>>
amount_match(line) ==
    LET e  == CrCoreEnd(line)
        sc == NumStart(line, e)
        sp == NumStart(line, Len(line))
    IN  IF e > 0 /\ sc > 0
        THEN << SubSeq(line, sc, Len(line)), SubSeq(line, sc, e), TRUE >>
        ELSE IF sp > 0
        THEN << SubSeq(line, sp, Len(line)), SubSeq(line, sp, Len(line)), FALSE >>
        ELSE <<>>

----------------------------------------------------------------------------
(* extract_bmo_transactions: the line loop, l.188-240 *)

\* the literal markers of the skip test at l.195-196
SkipMarkers ==
    { <<"T","R","A","N","S">>,
      <<"D","A","T","E">>,
      <<"D","E","S","C","R","I","P","T","I","O","N">>,
      <<"A","M","O","U","N","T">>,
      <<"C","a","r","d"," ","n","u","m","b","e","r",":">>,
      <<"E","T","H","A","N"," ","Q","Y"," ","W","A","N","G">> }

\* l.195-196
IsSkipLine(line) ==
    line = <<>> \/ \E m \in SkipMarkers : Contains(line, m)

\* l.226 without the strip
line_before_amount_NoStrip(current_line, m) ==
    Slice(current_line, 1, rfind(current_line, m[1]))

\* l.226: current_line[:current_line.rfind(amount_match.group(0))].strip()
line_before_amount(current_line, m) ==
    strip(Slice(current_line, 1, rfind(current_line, m[1])))

\* l.221 alone: the credit marker is ignored
AmountOf_Unsigned(m) == float(m[2])

\* l.221-223
AmountOf(m) == IF m[3] THEN 0 - float(m[2]) ELSE float(m[2])

\* l.227-228 and l.237-238: the row appended for the amount line
Row(td, pd, frags, current_line, m) ==
    LET before == line_before_amount(current_line, m)
        all    == IF before # <<>> THEN Append(frags, before) ELSE frags
    IN  [ transactionDate |-> td, postedDate |-> pd,
          description |-> join(all), amount |-> AmountOf(m) ]

\* l.238 without the test of l.236: a row with no amount is emitted
Truncated_EmitPartial(txns, td, pd, frags) ==
    Append(txns, [ transactionDate |-> td, postedDate |-> pd,
                   description |-> join(frags), amount |-> 0 ])

\* l.236-238 when the inner loop ran off the section: amount is None, no row
Truncated(txns, td, pd, frags) == txns

\* l.230-231 with a test the code does not make: a date-pair line or a
\* skip-list line met inside a cycle is left out of the buffer
Buffered_DropMarked(frags, current_line) ==
    IF date_match(current_line) # <<>> \/ IsSkipLine(current_line) THEN frags
    ELSE Append(frags, current_line)

\* l.230-231: merchant_lines.append(current_line), whatever the line looks like
Buffered(frags, current_line) == Append(frags, current_line)

\* the loops without their i += 1: the index stays on the line just read
Advance_Stay(k) == k

\* l.197, l.207, l.233, l.240: i += 1
Advance(k) == k + 1

\* lines[i] of the code (0-based)
Line(k) == lines[k + 1]

\* l.195-198: a skip-list line is passed over
ScanSkip ==
    /\ pc = "SCANNING"
    /\ i < Len(lines)
    /\ IsSkipLine(Line(i))
    /\ i' = Advance(i)
    /\ UNCHANGED <<lines, pc, trans_date, post_date, merchant_lines, transactions>>
    /\ UNCHANGED <<mergeVars, catVars, runVars>>

\* l.201-209: a date-pair header opens a cycle
ScanHeader ==
    /\ pc = "SCANNING"
    /\ i < Len(lines)
    /\ ~IsSkipLine(Line(i))
    /\ date_match(Line(i)) # <<>>
    /\ trans_date' = date_match(Line(i))[1]
    /\ post_date' = date_match(Line(i))[2]
    /\ i' = Advance(i)
    /\ merchant_lines' = <<>>
    /\ pc' = "COLLECTING"
    /\ UNCHANGED <<lines, transactions>>
    /\ UNCHANGED <<mergeVars, catVars, runVars>>

\* l.202 false, l.240: any other line is passed over
ScanOther ==
    /\ pc = "SCANNING"
    /\ i < Len(lines)
    /\ ~IsSkipLine(Line(i))
    /\ date_match(Line(i)) = <<>>
    /\ i' = Advance(i)
    /\ UNCHANGED <<lines, pc, trans_date, post_date, merchant_lines, transactions>>
    /\ UNCHANGED <<mergeVars, catVars, runVars>>

\* l.191 false: the outer loop ends
ScanEnd ==
    /\ pc = "SCANNING"
    /\ i >= Len(lines)
    /\ pc' = "done"
    /\ UNCHANGED <<lines, i, trans_date, post_date, merchant_lines, transactions>>
    /\ UNCHANGED <<mergeVars, catVars, runVars>>

\* l.219-229, l.236-240: the amount line closes the cycle and the row is emitted
CollectAmount ==
    /\ pc = "COLLECTING"
    /\ i < Len(lines)
    /\ strip(Line(i)) # <<>>
    /\ amount_match(strip(Line(i))) # <<>>
    /\ transactions' = Append(transactions,
            Row(trans_date, post_date, merchant_lines, strip(Line(i)),
                amount_match(strip(Line(i)))))
    /\ i' = Advance(i)
    /\ pc' = "SCANNING"
    /\ UNCHANGED <<lines, trans_date, post_date, merchant_lines>>
    /\ UNCHANGED <<mergeVars, catVars, runVars>>

\* l.213-216 (an empty line is passed over) and l.230-233 (a fragment is buffered)
CollectFragment ==
    /\ pc = "COLLECTING"
    /\ i < Len(lines)
    /\ IF strip(Line(i)) = <<>> THEN TRUE
       ELSE amount_match(strip(Line(i))) = <<>>
    /\ merchant_lines' = IF strip(Line(i)) = <<>> THEN merchant_lines
                         ELSE Buffered(merchant_lines, strip(Line(i)))
    /\ i' = Advance(i)
    /\ UNCHANGED <<lines, pc, trans_date, post_date, transactions>>
    /\ UNCHANGED <<mergeVars, catVars, runVars>>

\* l.212 false with amount None: nothing is emitted (l.236), then l.240 and l.191
CollectEnd ==
    /\ pc = "COLLECTING"
    /\ i >= Len(lines)
    /\ transactions' = Truncated(transactions, trans_date, post_date, merchant_lines)
    /\ i' = Advance(i)
    /\ pc' = "done"
    /\ UNCHANGED <<lines, trans_date, post_date, merchant_lines>>
    /\ UNCHANGED <<mergeVars, catVars, runVars>>

----------------------------------------------------------------------------
(* Cells of the ledger's Year and Month columns.  A Year cell is an integer or
   a text; None is Python's None. *)

IntCell(n)  == <<"int", n>>
TextCell(t) == <<"text", t>>
None        == <<"None">>

AssumedYear   == 2025
SentinelYear  == 9999
SentinelMonth == 99

\* l.299-300
month_order ==
    << <<"J","a","n">>, <<"F","e","b">>, <<"M","a","r">>, <<"A","p","r">>,
       <<"M","a","y">>, <<"J","u","n">>, <<"J","u","l">>, <<"A","u","g">>,
       <<"S","e","p">>, <<"O","c","t">>, <<"N","o","v">>, <<"D","e","c">> >>

\* first_date.split('.')[0], l.257
split_first(s) ==
    LET dots == {p \in 1..Len(s) : s[p] = "."}
    IN  IF dots = {} THEN s
        ELSE Slice(s, 1, (CHOOSE p \in dots : \A q \in dots : p <= q) - 1)

\* get_month_year_from_transactions, l.249-264: <<year, month>>
get_month_year_from_transactions(df) ==
    IF Len(df) = 0 THEN <<None, None>>
    ELSE LET month_abbr == split_first(df[1].transactionDate)
         IN  IF month_abbr # <<>> THEN <<IntCell(AssumedYear), month_abbr>>
             ELSE <<None, None>>

\* l.283 left out: every row of the ledger is kept
keep_other_months_KeepAll(existing, year, month) == existing

\* l.283 with the month test dropped: every row of the batch's year is removed
keep_other_months_DropYear(existing, year, month) ==
    SelectSeq(existing, LAMBDA r : ~(r.Year = year))

\* l.283: the rows of another (Year, Month) are kept
keep_other_months(existing, year, month) ==
    SelectSeq(existing, LAMBDA r : ~(r.Year = year /\ r.Month = month))

\* l.281-283: the filter runs on a non-empty ledger (the files modelled here
\* have the Year and Month columns)
filter_existing(existing, year, month) ==
    IF existing # <<>> THEN keep_other_months(existing, year, month) ELSE existing

\* each row tagged with the month of its own date instead of the batch's
with_month_OwnMonth(t, year, month) ==
    [Year |-> year, Month |-> split_first(t.transactionDate)] @@ t

\* one row of new_df with the Year and Month columns inserted, l.288-290; the
\* other columns of the row stay
with_month(t, year, month) == [Year |-> year, Month |-> month] @@ t

new_df_with_month(df, year, month) ==
    [k \in 1..Len(df) |-> with_month(df[k], year, month)]

\* l.293-296
concat(existing, new_rows) ==
    IF existing # <<>> THEN existing \o new_rows ELSE new_rows

\* int(row["Year"]) of l.304: <<n>>, or <<>> when it raises
int_of(cell) ==
    IF cell[1] = "int" THEN <<cell[2]>>
    ELSE IF cell[1] = "text" /\ cell[2] # <<>> /\ \A q \in 1..Len(cell[2]) : cell[2][q] \in Digit
    THEN <<DigitsVal(cell[2])>>
    ELSE <<>>

\* month_order.index(row["Month"]) if row["Month"] in month_order else 99, l.305
month_index(m) ==
    IF \E k \in 1..Len(month_order) : month_order[k] = m
    THEN (CHOOSE k \in 1..Len(month_order) : month_order[k] = m) - 1
    ELSE SentinelMonth

\* the key with its two parts swapped: month first, then year
sort_key_MonthFirst(row) ==
    IF int_of(row.Year) # <<>>
    THEN <<month_index(row.Month), int_of(row.Year)[1]>>
    ELSE <<SentinelMonth, SentinelYear>>

\* sort_key, l.302-308
sort_key(row) ==
    IF int_of(row.Year) # <<>>
    THEN <<int_of(row.Year)[1], month_index(row.Month)>>
    ELSE <<SentinelYear, SentinelMonth>>

\* Python's < on the key tuples
key_less(a, b) == a[1] < b[1] \/ (a[1] = b[1] /\ a[2] < b[2])

\* sort_values('sort_key') at l.311.  The default kind is quicksort, which is
\* not a stable sort: the rows come out in ascending key order, and the order
\* of rows of equal key is whatever the sort makes of the frame.  The set
\* holds every ascending order of the rows.
RECURSIVE orders_of(_, _, _)
orders_of(rows, keys, S) ==
    IF S = {} THEN {<<>>}
    ELSE LET least == {j \in S : \A k \in S : ~key_less(keys[k], keys[j])}
         IN  UNION { { <<rows[j]>> \o t : t \in orders_of(rows, keys, S \ {j}) } :
                     j \in least }

\* l.310-311
sort_values(rows) ==
    orders_of(rows, [k \in 1..Len(rows) |-> sort_key(rows[k])], 1..Len(rows))

\* pd.read_excel(log_file) when the file exists, else an empty frame, l.276-285
read_log(file) == IF file.exists THEN file.rows ELSE <<>>

\* combined_df.to_excel(log_file, index=False), l.314
written(rows) == [exists |-> TRUE, rows |-> rows]

\* append_to_log without the test of l.269: an empty batch is merged like any other
append_to_log_NoEarlyReturn(file, df) ==
    LET ym == get_month_year_from_transactions(df)
        existing == read_log(file)
        combined == concat(filter_existing(existing, ym[1], ym[2]),
                           new_df_with_month(df, ym[1], ym[2]))
    IN  { [ file |-> written(sorted), existing |-> existing, combined |-> combined,
            ret |-> <<sorted, ym[1], ym[2]>> ] : sorted \in sort_values(combined) }

\* append_to_log, l.266-316: the outcomes of one call on the file's content:
\* the file afterwards, the ledger that was read, and the value returned
append_to_log(file, df) ==
    IF Len(df) = 0
    THEN { [ file |-> file, existing |-> <<>>, combined |-> <<>>, ret |-> <<>> ] }
    ELSE LET ym == get_month_year_from_transactions(df)
             existing == read_log(file)
             combined == concat(filter_existing(existing, ym[1], ym[2]),
                                new_df_with_month(df, ym[1], ym[2]))
         IN  { [ file |-> written(sorted), existing |-> existing, combined |-> combined,
                 ret |-> <<sorted, ym[1], ym[2]>> ] : sorted \in sort_values(combined) }

\* one call append_to_log(df, log_file)
AppendToLog(df) ==
    /\ op = "none"
    /\ \E out \in append_to_log(log_file, df) :
          /\ log_file' = out.file
          /\ existing_df' = out.existing
          /\ combined_df' = out.combined
          /\ ret' = out.ret
    /\ new_df' = df
    /\ op' = "append"
    /\ reads' = (IF df # <<>> /\ log_file.exists THEN 1 ELSE 0)
    /\ writes' = (IF df # <<>> THEN 1 ELSE 0)
    /\ UNCHANGED <<parserVars, catVars, full_text, console, raised>>

\* the same statement is processed again: append_to_log with the same batch.
\* sort_values is a function of the frame: when this call sorts the frame the
\* first call sorted, the rows come out in the order they came out then.
Reprocess ==
    /\ op = "append"
    /\ \E out \in append_to_log(log_file, new_df) :
          /\ out.combined = combined_df => out.ret = ret
          /\ log_file' = out.file
          /\ existing_df' = out.existing
          /\ combined_df' = out.combined
          /\ ret' = out.ret
    /\ op' = "reprocess"
    /\ reads' = (IF new_df # <<>> /\ log_file.exists THEN 1 ELSE 0)
    /\ writes' = (IF new_df # <<>> THEN 1 ELSE 0)
    /\ UNCHANGED new_df
    /\ UNCHANGED <<parserVars, catVars, full_text, console, raised>>

----------------------------------------------------------------------------
(* Categorization, l.18-167.  Category names and classifier labels are strings;
   descriptions and keywords are texts, so that lower() and `in` are computed. *)

UpperSeq == <<"A","B","C","D","E","F","G","H","I","J","K","L","M",
              "N","O","P","Q","R","S","T","U","V","W","X","Y","Z">>
LowerSeq == <<"a","b","c","d","e","f","g","h","i","j","k","l","m",
              "n","o","p","q","r","s","t","u","v","w","x","y","z">>

\* str.lower()
lower(s) ==
    [q \in 1..Len(s) |->
        IF s[q] \in Upper
        THEN LowerSeq[CHOOSE k \in 1..26 : UpperSeq[k] = s[q]]
        ELSE s[q]]

\* the table of l.96-140, in the order the dict literal gives it
categories ==
    <<
       [ name |-> "Food & Dining",
         keywords |-> <<
             <<"m","c","d","o","n","a","l","d">>,    \* mcdonald
             <<"t","i","m"," ","h","o","r","t","o","n">>,    \* tim horton
             <<"b","u","r","g","e","r"," ","k","i","n","g">>,    \* burger king
             <<"k","f","c">>,    \* kfc
             <<"s","u","b","w","a","y">>,    \* subway
             <<"p","i","z","z","a">>,    \* pizza
             <<"s","t","a","r","b","u","c","k","s">>,    \* starbucks
             <<"c","o","f","f","e","e">>,    \* coffee
             <<"r","e","s","t","a","u","r","a","n","t">>,    \* restaurant
             <<"c","a","f","e">>,    \* cafe
             <<"d","i","n","e","r">>,    \* diner
             <<"w","e","n","d","y">>,    \* wendy
             <<"t","a","c","o"," ","b","e","l","l">>,    \* taco bell
             <<"p","o","p","e","y","e","s">>,    \* popeyes
             <<"a","&","w">>,    \* a&w
             <<"d","a","i","r","y"," ","q","u","e","e","n">>,    \* dairy queen
             <<"h","a","r","v","e","y","s">>,    \* harveys
             <<"r","e","s","t","o">>,    \* resto
             <<"b","i","s","t","r","o">>,    \* bistro
             <<"g","r","i","l","l">>,    \* grill
             <<"k","i","t","c","h","e","n">>,    \* kitchen
             <<"b","a","r"," ","&"," ","g","r","i","l","l">>,    \* bar & grill
             <<"g","o","l","d","e","n"," ","f","i","s","h">>,    \* golden fish
             <<"a","r","b","y">>,    \* arby
             <<"n","u","r","i"," ","v","i","l","l","a","g","e">>,    \* nuri village
             <<"y","o","g","u","r","t">>,    \* yogurt
             <<"p","o","k","e">>    \* poke
         >> ],
       [ name |-> "Transportation",
         keywords |-> <<
             <<"u","b","e","r">>,    \* uber
             <<"l","y","f","t">>,    \* lyft
             <<"t","a","x","i">>,    \* taxi
             <<"g","a","s">>,    \* gas
             <<"p","e","t","r","o">>,    \* petro
             <<"s","h","e","l","l">>,    \* shell
             <<"e","s","s","o">>,    \* esso
             <<"p","a","r","k","i","n","g">>,    \* parking
             <<"t","r","a","n","s","i","t">>,    \* transit
             <<"g","o"," ","t","r","a","i","n">>,    \* go train
             <<"t","t","c">>,    \* ttc
             <<"p","r","e","s","t","o">>,    \* presto
             <<"v","i","a"," ","r","a","i","l">>    \* via rail
         >> ],
       [ name |-> "Shopping",
         keywords |-> <<
             <<"a","m","a","z","o","n">>,    \* amazon
             <<"w","a","l","m","a","r","t">>,    \* walmart
             <<"t","a","r","g","e","t">>,    \* target
             <<"c","o","s","t","c","o">>,    \* costco
             <<"c","a","n","a","d","i","a","n"," ","t","i","r","e">>,    \* canadian tire
             <<"h","o","m","e"," ","d","e","p","o","t">>,    \* home depot
             <<"l","o","b","l","a","w","s">>,    \* loblaws
             <<"s","h","o","p","p","e","r","s">>,    \* shoppers
             <<"b","e","s","t"," ","b","u","y">>,    \* best buy
             <<"f","u","t","u","r","e"," ","s","h","o","p">>    \* future shop
         >> ],
       [ name |-> "Entertainment",
         keywords |-> <<
             <<"n","e","t","f","l","i","x">>,    \* netflix
             <<"s","p","o","t","i","f","y">>,    \* spotify
             <<"m","o","v","i","e">>,    \* movie
             <<"c","i","n","e","m","a">>,    \* cinema
             <<"t","h","e","a","t","r","e">>,    \* theatre
             <<"c","o","n","c","e","r","t">>,    \* concert
             <<"w","a","t","e","r","l","o","o"," ","s","t","a","r">>    \* waterloo star
         >> ],
       [ name |-> "Subscriptions",
         keywords |-> <<
             <<"s","p","o","t","i","f","y">>,    \* spotify
             <<"n","e","t","f","l","i","x">>,    \* netflix
             <<"a","p","p","l","e"," ","m","u","s","i","c">>,    \* apple music
             <<"s","u","b","s","c","r","i","p","t","i","o","n">>,    \* subscription
             <<"m","o","n","t","h","l","y"," ","f","e","e">>,    \* monthly fee
             <<"g","y","m"," ","m","e","m","b","e","r","s","h","i","p">>,    \* gym membership
             <<"p","l","a","n","e","t"," ","f","i","t","n","e","s","s">>    \* planet fitness
         >> ],
       [ name |-> "Transfer",
         keywords |-> <<
             <<"t","r","s","f">>,    \* trsf
             <<"t","r","a","n","s","f","e","r">>,    \* transfer
             <<"e","-","t","r","a","n","s","f","e","r">>,    \* e-transfer
             <<"i","n","t","e","r","a","c">>,    \* interac
             <<"p","a","y","m","e","n","t"," ","t","o">>    \* payment to
         >> ],
       [ name |-> "ATM/Cash",
         keywords |-> <<
             <<"a","t","m">>,    \* atm
             <<"c","a","s","h"," ","w","i","t","h","d","r","a","w","a","l">>,    \* cash withdrawal
             <<"b","a","n","k"," ","m","a","c","h","i","n","e">>    \* bank machine
         >> ],
       [ name |-> "Healthcare",
         keywords |-> <<
             <<"p","h","a","r","m","a","c","y">>,    \* pharmacy
             <<"s","h","o","p","p","e","r","s"," ","d","r","u","g">>,    \* shoppers drug
             <<"m","e","d","i","c","a","l">>,    \* medical
             <<"d","o","c","t","o","r">>,    \* doctor
             <<"h","o","s","p","i","t","a","l">>,    \* hospital
             <<"d","e","n","t","a","l">>,    \* dental
             <<"c","l","i","n","i","c">>,    \* clinic
             <<"h","e","a","l","t","h">>    \* health
         >> ],
       [ name |-> "Groceries",
         keywords |-> <<
             <<"l","o","b","l","a","w","s">>,    \* loblaws
             <<"m","e","t","r","o">>,    \* metro
             <<"s","o","b","e","y","s">>,    \* sobeys
             <<"f","o","o","d"," ","b","a","s","i","c","s">>,    \* food basics
             <<"n","o"," ","f","r","i","l","l","s">>,    \* no frills
             <<"s","u","p","e","r","m","a","r","k","e","t">>,    \* supermarket
             <<"g","r","o","c","e","r","y">>,    \* grocery
             <<"f","r","e","s","h">>    \* fresh
         >> ],
       [ name |-> "Miscellaneous",
         keywords |-> <<
             <<"h","i"," ","y","o","g","u","r","t">>    \* hi yogurt
         >> ]
    >>

\* any(keyword in desc_lower for keyword in keywords), l.144
any_keyword(desc_lower, keywords) ==
    \E n \in 1..Len(keywords) : Contains(desc_lower, keywords[n])

\* the loop of l.143-145 from the k-th category on; l.147 when it runs out
RECURSIVE first_match(_, _)
first_match(desc_lower, k) ==
    IF k > Len(categories) THEN "Miscellaneous"
    ELSE IF any_keyword(desc_lower, categories[k].keywords) THEN categories[k].name
    ELSE first_match(desc_lower, k + 1)

\* the loop without its return at l.145: the last category that matches wins
RECURSIVE last_match(_, _)
last_match(desc_lower, k) ==
    IF k < 1 THEN "Miscellaneous"
    ELSE IF any_keyword(desc_lower, categories[k].keywords) THEN categories[k].name
    ELSE last_match(desc_lower, k - 1)

\* the table searched from its end
fallback_categorization_LastMatch(description) ==
    last_match(lower(description), Len(categories))

\* fallback_categorization, l.92-147
fallback_categorization(description) == first_match(lower(description), 1)

\* l.59-69
candidate_labels ==
    << "Food & Dining", "Transportation", "Shopping", "Entertainment",
       "Subscriptions", "Healthcare", "ATM/Cash", "Transfer", "Groceries" >>

\* l.80, in hundredths
confidence_threshold == 70

\* the pipeline object of l.32-33
Pipeline == <<"pipeline", "zero-shot-classification", "facebook/bart-large-mnli">>

\* what classifier(...) does at l.72: it raises, or it returns ranked labels
\* with their scores (in hundredths)
Outcome(raises, labels, scores) ==
    [raises |-> raises, labels |-> labels, scores |-> scores]

Raise == Outcome(TRUE, <<>>, <<>>)

\* the entry of result for a row whose description never reached l.72
NotCalled == [called |-> FALSE, res |-> Outcome(FALSE, <<>>, <<>>)]

\* l.82 with > for >=
confident_Strict(top_confidence) == top_confidence > confidence_threshold

\* l.82
confident(top_confidence) == top_confidence >= confidence_threshold

\* l.48-90: what categorize_transaction returns once the rule pass has given
\* rule_based_category
after_rule_pass(rule_based_category, cls, res) ==
    IF rule_based_category # "Miscellaneous" THEN rule_based_category
    ELSE IF cls = None THEN "Miscellaneous"
    ELSE IF res.raises THEN "Miscellaneous"
    ELSE IF res.labels = <<>> \/ res.scores = <<>> THEN "Miscellaneous"
    ELSE IF confident(res.scores[1]) THEN res.labels[1]
    ELSE "Miscellaneous"

\* l.49 and l.55 both false: categorize_transaction reaches the call at l.72
calls_classifier(rule_based_category, cls) ==
    rule_based_category = "Miscellaneous" /\ cls # None

\* categorize_transaction, l.42-90.  res is what the call at l.72 does when it
\* is reached; empty lists make l.75 or l.76 raise IndexError inside the try
categorize_transaction(description, cls, res) ==
    after_rule_pass(fallback_categorization(description), cls, res)

\* initialize_classifier, l.18-40: the classifier afterwards and the value returned.
\* load_ok is whether pipeline(...) at l.32 succeeds.
initialize_classifier(hf, cls, load_ok) ==
    IF ~hf THEN [classifier |-> cls, ret |-> FALSE]
    ELSE IF cls = None
         THEN IF load_ok THEN [classifier |-> Pipeline, ret |-> TRUE]
              ELSE [classifier |-> None, ret |-> FALSE]
    ELSE [classifier |-> cls, ret |-> TRUE]

\* add_categories_to_dataframe, l.149-167, after the parse: the classifier is
\* set up, then every description gets its category; Results are the things
\* the external classifier may do on one call
AddCategories(Results) ==
    /\ pc = "done"
    /\ \E load_ok \in BOOLEAN :
       \* l.46, the same for both branches of l.160
       \E rule \in {[k \in 1..Len(transactions) |->
                        fallback_categorization(transactions[k].description)]} :
       \E init \in {IF Len(transactions) = 0
                     THEN [classifier |-> classifier, ret |-> FALSE]
                     ELSE initialize_classifier(HF_AVAILABLE, classifier, load_ok)} :
       \E called \in {{k \in 1..Len(transactions) :
                          init.ret /\ calls_classifier(rule[k], init.classifier)}} :
       \E rs \in [called -> Results] :
          /\ classifier' = init.classifier
          /\ result' = [k \in 1..Len(transactions) |->
                IF k \in called THEN [called |-> TRUE, res |-> rs[k]] ELSE NotCalled]
          /\ Category' = [k \in 1..Len(transactions) |->
                IF k \in called
                THEN after_rule_pass(rule[k], init.classifier, rs[k])
                ELSE IF init.ret
                THEN after_rule_pass(rule[k], init.classifier, NotCalled.res)
                ELSE rule[k]]
    /\ pc' = "categorized"
    /\ UNCHANGED <<lines, i, trans_date, post_date, merchant_lines, transactions>>
    /\ UNCHANGED <<mergeVars, runVars, HF_AVAILABLE>>

----------------------------------------------------------------------------
(* The section of the document, l.169-186, and main, l.318-369 *)

Anchor == <<"T","r","a","n","s","a","c","t","i","o","n","s"," ","s","i","n","c","e"," ","y","o","u","r"," ","l","a","s","t"," ","s","t","a","t","e","m","e","n","t">>

SubtotalMarker == <<"S","u","b","t","o","t","a","l"," ","f","o","r">>

ValueError == <<"ValueError", "Could not find transaction section">>

\* the smallest member of a set of indices, -1 for the empty set
lowest(at) == IF at = {} THEN -1 ELSE CHOOSE p \in at : \A q \in at : p <= q

\* str.find(sub): lowest 0-based index at which sub occurs, -1 when absent
find(s, sub) ==
    lowest({p \in 0..(Len(s) - Len(sub)) : SubSeq(s, p + 1, p + Len(sub)) = sub})

\* s.split(sub, 1)[1] for an s that contains sub
after_first(s, sub) == Slice(s, find(s, sub) + Len(sub) + 1, Len(s))

\* s.split(sub, 1)[0] for an s that contains sub
before_first(s, sub) == Slice(s, 1, find(s, sub))

\* text.split('\n'), p being the index of the first line break of text
RECURSIVE split_lines(_)
RECURSIVE split_at(_, _)
split_at(text, p) ==
    IF p = -1 THEN <<text>>
    ELSE <<Slice(text, 1, p)>> \o split_lines(Slice(text, p + 2, Len(text)))

\* text.split('\n')
split_lines(text) == split_at(text, find(text, <<"\n">>))

\* l.182-183 (and l.335-336): the section is cut at the subtotal marker
cut_at_subtotal(section) ==
    IF Contains(section, SubtotalMarker) THEN before_first(section, SubtotalMarker)
    ELSE section

\* l.179 alone: the section runs to the end of the text
txn_section_NoTruncate(text) == after_first(text, Anchor)

\* l.179-183 (and l.334-336): the text after the start anchor, cut at the subtotal
txn_section(text) == cut_at_subtotal(after_first(text, Anchor))

\* [line.strip() for line in raw]
strip_all(raw) == [k \in 1..Len(raw) |-> strip(raw[k])]

\* seq[:n]
take(seq, n) == SubSeq(seq, 1, IF Len(seq) < n THEN Len(seq) ELSE n)

\* l.186: [line.strip() for line in lines if line.strip()]
stripped_lines(raw) == SelectSeq(strip_all(raw), LAMBDA l : l # <<>>)

\* l.176-177 left out: a text without the anchor is parsed as a whole
open_section_Lenient(text) ==
    IF ~Contains(text, Anchor)
    THEN [raised |-> <<>>, lines |-> stripped_lines(split_lines(text))]
    ELSE [raised |-> <<>>, lines |-> stripped_lines(split_lines(txn_section(text)))]

\* l.175-186: the exception raised, or the lines handed to the loop
open_section(text) ==
    IF ~Contains(text, Anchor)
    THEN [raised |-> ValueError, lines |-> <<>>]
    ELSE [raised |-> <<>>, lines |-> stripped_lines(split_lines(txn_section(text)))]

\* l.340: lines[:20]
DebugLines == 20

\* l.338-341 without the slice: every raw line is printed
debug_dump_All(text) == strip_all(split_lines(txn_section(text)))

\* l.334-341: the lines main prints, the first 20 raw lines of the section, stripped
debug_dump(text) == take(debug_dump_All(text), DebugLines)

\* the frame extract_bmo_transactions returns: the rows with their Category column
categorized_df ==
    [k \in 1..Len(transactions) |-> transactions[k] @@ [Category |-> Category[k]]]

\* l.283 done on the file: the filtered ledger is saved at once
log_after_filter_InPlace(file, filtered) == written(filtered)

\* l.283 runs in memory: the file is as it was after the filter
log_after_filter(file, filtered) == file

\* l.169-186: extract_bmo_transactions opens the document and finds the section;
\* without the anchor ValueError leaves main (l.323 has no handler)
OpenSection ==
    /\ pc = "main"
    /\ \E sec \in {open_section(full_text)} :
          /\ raised' = sec.raised
          /\ lines' = sec.lines
          /\ pc' = IF sec.raised # <<>> THEN "raised" ELSE "SCANNING"
    /\ i' = 0
    /\ transactions' = <<>>
    /\ UNCHANGED <<trans_date, post_date, merchant_lines>>
    /\ UNCHANGED <<mergeVars, catVars, full_text, console, reads, writes>>

\* l.326-341: no transaction came out, the raw lines of the section are printed
MainDebug ==
    /\ pc = "categorized"
    /\ Len(transactions) = 0
    /\ console' = [kind |-> "debug", lines |-> debug_dump(full_text)]
    /\ pc' = "exit"
    /\ UNCHANGED <<parserVars_but_pc, mergeVars, catVars, full_text, raised, reads, writes>>

\* l.344, l.269-285: append_to_log is entered with a non-empty frame and reads
\* the log file when there is one
ReadLog ==
    /\ pc = "categorized"
    /\ Len(transactions) # 0
    /\ new_df' = categorized_df
    /\ existing_df' = read_log(log_file)
    /\ reads' = reads + (IF log_file.exists THEN 1 ELSE 0)
    /\ pc' = "merge_filter"
    /\ UNCHANGED <<parserVars_but_pc, log_file, combined_df, ret, op>>
    /\ UNCHANGED <<catVars, full_text, console, raised, writes>>

\* l.273, l.281-296: the rows of the batch's month go, the tagged batch is added
FilterLog ==
    /\ pc = "merge_filter"
    /\ \E ym \in {get_month_year_from_transactions(new_df)} :
       \E kept \in {filter_existing(existing_df, ym[1], ym[2])} :
          /\ existing_df' = kept
          /\ combined_df' = concat(kept, new_df_with_month(new_df, ym[1], ym[2]))
          /\ log_file' = log_after_filter(log_file, kept)
    /\ pc' = "merge_sort"
    /\ UNCHANGED <<parserVars_but_pc, new_df, ret, op>>
    /\ UNCHANGED <<catVars, runVars>>

\* l.298-311: the frame is sorted by (year, month index)
SortLog ==
    /\ pc = "merge_sort"
    /\ combined_df' \in sort_values(combined_df)
    /\ pc' = "merge_save"
    /\ UNCHANGED <<parserVars_but_pc, log_file, new_df, existing_df, ret, op>>
    /\ UNCHANGED <<catVars, runVars>>

\* l.314-316: the sorted frame is written over the log file and returned
SaveLog ==
    /\ pc = "merge_save"
    /\ log_file' = written(combined_df)
    /\ writes' = writes + 1
    /\ \E ym \in {get_month_year_from_transactions(new_df)} :
          ret' = <<combined_df, ym[1], ym[2]>>
    /\ pc' = "summary"
    /\ UNCHANGED <<parserVars_but_pc, new_df, existing_df, combined_df, op>>
    /\ UNCHANGED <<catVars, full_text, console, raised, reads>>

\* l.346-369: the summary of the run is printed
MainSummary ==
    /\ pc = "summary"
    /\ console' = [kind |-> "summary", extracted |-> Len(new_df),
                   year |-> ret[2], month |-> ret[3], total |-> Len(ret[1])]
    /\ pc' = "exit"
    /\ UNCHANGED <<parserVars_but_pc, mergeVars, catVars, full_text, raised, reads, writes>>

\* the process dies between two statements (killed, out of memory, an exception
\* of a library): nothing more is executed
Crash ==
    /\ pc \notin {"exit", "raised", "crashed"}
    /\ pc' = "crashed"
    /\ UNCHANGED <<parserVars_but_pc, mergeVars, catVars, runVars>>

----------------------------------------------------------------------------
(* Inputs of the parser *)

MaxLines == 4

HdrApr  == <<"A","p","r","."," ","4"," ","A","p","r","."," ","7">>
HdrMay  == <<"M","a","y","."," ","1","2"," "," ","M","a","y","."," ","1","3">>
LnAmazon  == <<"A","M","A","Z","O","N",".","C","A">>
LnToronto == <<"T","O","R","O","N","T","O"," ","O","N"," ","5","4",".","2","3">>
LnCredit  == <<"1","2",".","9","9"," ","C","R">>
LnDebit   == <<"4",".","5","0">>
LnDate    == <<"D","A","T","E">>
LnGlued   == <<"9",".","9","9","C","R">>
LnTabbed  == <<"X","7",".","0","5","\t","C","R">>

\* stripped, non-empty lines as l.185-186 leave them
LinePool == {HdrApr, HdrMay, LnAmazon, LnToronto, LnCredit, LnDebit, LnDate, LnGlued,
             LnTabbed}

Sections == UNION {[1..n -> LinePool] : n \in 0..MaxLines}

NoFile == [exists |-> FALSE, rows |-> <<>>]

\* nothing printed by main yet
Silent == [kind |-> "none"]

InitParse ==
    /\ lines \in Sections
    /\ i = 0
    /\ pc = "SCANNING"
    /\ trans_date = <<>>
    /\ post_date = <<>>
    /\ merchant_lines = <<>>
    /\ transactions = <<>>
    /\ log_file = NoFile
    /\ new_df = <<>>
    /\ existing_df = <<>>
    /\ combined_df = <<>>
    /\ ret = <<>>
    /\ op = "none"
    /\ HF_AVAILABLE = FALSE
    /\ classifier = None
    /\ result = <<>>
    /\ Category = <<>>
    /\ full_text = <<>>
    /\ console = Silent
    /\ raised = <<>>
    /\ reads = 0
    /\ writes = 0

NextParse ==
    \/ ScanSkip
    \/ ScanHeader
    \/ ScanOther
    \/ ScanEnd
    \/ CollectAmount
    \/ CollectFragment
    \/ CollectEnd

SpecParse == InitParse /\ [][NextParse]_vars

----------------------------------------------------------------------------
(* What the statement format means, stated without the parser's scans *)

\* digits, a period, two digits, and nothing else
IsNumStr(s) ==
    /\ Len(s) >= 4
    /\ s[Len(s) - 2] = "."
    /\ \A q \in 1..Len(s) : q # Len(s) - 2 => s[q] \in Digit

\* whitespace followed by the credit marker, and nothing else
IsCreditTail(s) ==
    /\ Len(s) >= 3
    /\ s[Len(s) - 1] = "C" /\ s[Len(s)] = "R"
    /\ \A q \in 1..(Len(s) - 2) : s[q] \in WS

\* where a number that runs to the end of the line may start
DebitStarts(l) == {p \in 1..Len(l) : IsNumStr(SubSeq(l, p, Len(l)))}

\* <<start, end>> of a number that a credit tail follows to the end of the line
CreditSpans(l) ==
    UNION { { <<p, e>> : p \in {q \in 1..e : IsNumStr(SubSeq(l, q, e))} } :
            e \in {x \in 1..Len(l) : IsCreditTail(SubSeq(l, x + 1, Len(l)))} }

EndsInAmount(l) == DebitStarts(l) # {} \/ CreditSpans(l) # {}

\* the longest number at the end of a debit line / before the tail of a credit line
DebitNumber(l) ==
    SubSeq(l, CHOOSE p \in DebitStarts(l) : \A q \in DebitStarts(l) : p <= q, Len(l))
CreditNumber(l) ==
    LET se == CHOOSE x \in CreditSpans(l) : \A y \in CreditSpans(l) : x[1] <= y[1]
    IN  SubSeq(l, se[1], se[2])

SignedAmount(l) ==
    IF CreditSpans(l) # {} THEN 0 - float(CreditNumber(l)) ELSE float(DebitNumber(l))

\* a month abbreviation, a period, a space, one or two digits
IsDateLabel(s) ==
    /\ Len(s) \in {6, 7}
    /\ s[1] \in Upper /\ s[2] \in Lower /\ s[3] \in Lower
    /\ s[4] = "." /\ s[5] = " "
    /\ \A q \in 6..Len(s) : s[q] \in Digit

\* <<end of the first label, start of the second>> of a date-pair line
HeaderCuts(l) ==
    UNION { { <<a, b>> : b \in {x \in (a + 2)..Len(l) :
                                   /\ IsDateLabel(SubSeq(l, x, Len(l)))
                                   /\ \A q \in (a + 1)..(x - 1) : l[q] \in WS} } :
            a \in {x \in 1..Len(l) : IsDateLabel(SubSeq(l, 1, x))} }

IsHeaderLine(l) == HeaderCuts(l) # {}

HeaderDates(l) ==
    LET ab == CHOOSE x \in HeaderCuts(l) : TRUE
    IN  << SubSeq(l, 1, ab[1]), SubSeq(l, ab[2], Len(l)) >>

\* the k-th smallest member of a set of positions
Kth(S, k) == CHOOSE x \in S : Cardinality({y \in S : y < x}) = k - 1

AmountPositions == {p \in 1..Len(lines) : EndsInAmount(lines[p])}

\* the section is N triples: a header, lines that do not end in an amount, an
\* amount line; so it ends with an amount line and a header follows each amount line
WellFormedSection ==
    /\ Len(lines) > 0 => Len(lines) \in AmountPositions
    /\ \A a \in AmountPositions \cup {0} :
          a < Len(lines) => IsHeaderLine(lines[a + 1])

----------------------------------------------------------------------------
(* C1: a section made of N well-formed (header, merchant lines, amount line)
   triples yields exactly N transactions, and the k-th transaction carries the
   two dates of the k-th header and the amount of the k-th amount line. *)
C1_WellFormedTriples ==
    (pc = "done" /\ WellFormedSection) =>
        /\ Len(transactions) = Cardinality(AmountPositions)
        /\ \A k \in 1..Cardinality(AmountPositions) :
              LET a == Kth(AmountPositions, k)
                  h == IF k = 1 THEN 1 ELSE Kth(AmountPositions, k - 1) + 1
              IN  /\ transactions[k].transactionDate = HeaderDates(lines[h])[1]
                  /\ transactions[k].postedDate = HeaderDates(lines[h])[2]
                  /\ transactions[k].amount = SignedAmount(lines[a])

\* a well-formed section of two triples with different dates and amounts was parsed
C1_Witness ==
    /\ pc = "done"
    /\ WellFormedSection
    /\ Len(transactions) = 2
    /\ transactions[1].transactionDate # transactions[2].transactionDate
    /\ transactions[1].amount # transactions[2].amount

----------------------------------------------------------------------------
(* C6: when the section ends while the parser is in COLLECTING, that step ends
   the parse, emits nothing for the open cycle and keeps every transaction
   emitted before it. *)
C6_TruncatedCycle ==
    [][ (pc = "COLLECTING" /\ i >= Len(lines)) =>
            (pc' = "done" /\ transactions' = transactions) ]_vars

\* the parse ended inside a cycle (the index ran one past the end, l.240 after
\* l.212 failed) and an earlier cycle had emitted a transaction
C6_Witness ==
    /\ pc = "done"
    /\ i = Len(lines) + 1
    /\ Len(transactions) = 1
    /\ IsHeaderLine(lines[Len(lines)])

----------------------------------------------------------------------------
(* C7: a line read in COLLECTING that ends in a number v with two fractional
   digits emits a transaction whose amount is -v when whitespace and CR follow
   v to the end of the line, and +v when v ends the line. *)
C7_CreditSign ==
    [][ (pc = "COLLECTING" /\ i < Len(lines) /\ EndsInAmount(Line(i))) =>
            /\ Len(transactions') = Len(transactions) + 1
            /\ CreditSpans(Line(i)) # {} =>
                  transactions'[Len(transactions')].amount
                      = 0 - float(CreditNumber(Line(i)))
            /\ DebitStarts(Line(i)) # {} =>
                  transactions'[Len(transactions')].amount
                      = float(DebitNumber(Line(i))) ]_vars

\* "12.99 CR" gave -12.99 and "4.50" gave 4.50 in one parse
C7_Witness ==
    /\ pc = "done"
    /\ \E j, k \in 1..Len(transactions) :
          /\ transactions[j].amount = 0 - 1299
          /\ transactions[k].amount = 450
    /\ \E p, q \in 1..Len(lines) : lines[p] = LnCredit /\ lines[q] = LnDebit

----------------------------------------------------------------------------
(* The cycles of a section, read off the format: a cycle opens at the first
   date-pair line at or after position p and closes at the first line after it
   that ends in an amount; the next cycle is looked for after that line. *)

FirstFrom(S, p) ==
    IF {q \in S : q >= p} = {} THEN 0
    ELSE CHOOSE q \in S : q >= p /\ \A r \in S : r >= p => q <= r

HeaderPositions == {p \in 1..Len(lines) : IsHeaderLine(lines[p])}

RECURSIVE CyclesFrom(_)
CyclesFrom(p) ==
    LET h == FirstFrom(HeaderPositions, p)
        a == IF h = 0 THEN 0 ELSE FirstFrom(AmountPositions, h + 1)
    IN  IF h = 0 \/ a = 0 THEN <<>> ELSE << <<h, a>> >> \o CyclesFrom(a + 1)

\* s without its leading and trailing whitespace, as a relation
IsTrimOf(t, s) ==
    \E a \in 1..(Len(s) + 1) : \E b \in 0..Len(s) :
        /\ t = Slice(s, a, b)
        /\ \A q \in 1..(a - 1) : q <= Len(s) => s[q] \in WS
        /\ \A q \in (b + 1)..Len(s) : q >= 1 => s[q] \in WS
        /\ t # <<>> => (t[1] \notin WS /\ t[Len(t)] \notin WS)

\* where the amount suffix (the number and the credit marker) of a line starts
SuffixStart(l) ==
    IF CreditSpans(l) # {}
    THEN (CHOOSE x \in CreditSpans(l) : \A y \in CreditSpans(l) : x[1] <= y[1])[1]
    ELSE CHOOSE p \in DebitStarts(l) : \A q \in DebitStarts(l) : p <= q

\* the parts joined by single spaces, built from the right
RECURSIVE SpaceJoined(_)
SpaceJoined(parts) ==
    IF parts = <<>> THEN <<>>
    ELSE IF Len(parts) = 1 THEN parts[1]
    ELSE SpaceJoined(SubSeq(parts, 1, Len(parts) - 1)) \o <<" ">> \o parts[Len(parts)]

(* C8: the description of the k-th transaction is the single-space join, in
   line order, of the lines between the header and the amount line of the k-th
   cycle, followed by the trimmed text before the amount suffix of the amount
   line when that text is not empty; nothing of the suffix goes into it. *)
C8_Description ==
    pc = "done" =>
        LET cycles == CyclesFrom(1)
        IN  \A k \in 1..Len(transactions) :
            /\ k <= Len(cycles)
            /\ LET h == cycles[k][1]
                   a == cycles[k][2]
                   frags == [n \in 1..(a - h - 1) |-> lines[h + n]]
                   before == Slice(lines[a], 1, SuffixStart(lines[a]) - 1)
                   text == CHOOSE t \in {Slice(before, b, e) :
                                             b \in 1..(Len(before) + 1), e \in 0..Len(before)} :
                               IsTrimOf(t, before)
               IN  transactions[k].description =
                      SpaceJoined(IF text = <<>> THEN frags ELSE Append(frags, text))

\* lines "AMAZON.CA", "TORONTO ON 54.23" gave "AMAZON.CA TORONTO ON" and 54.23
C8_Witness ==
    /\ pc = "done"
    /\ \E k \in 1..Len(transactions) :
          /\ transactions[k].description =
                <<"A","M","A","Z","O","N",".","C","A"," ",
                  "T","O","R","O","N","T","O"," ","O","N">>
          /\ transactions[k].amount = 5423

----------------------------------------------------------------------------
\* a line that looks like a header or carries one of the skip-list markers
MarkedLine(l) == IsHeaderLine(l) \/ \E m \in SkipMarkers : Contains(l, m)

(* C17: in COLLECTING, a line that matches the date-pair pattern or carries a
   skip-list marker and does not end in an amount is appended to the merchant
   buffer and opens no transaction; the transaction emitted later keeps the
   dates of the header that opened the cycle, so two headers before one amount
   line give one transaction. *)
C17_MarkedLineIsFragment ==
    /\ [][ ( /\ pc = "COLLECTING"
             /\ i < Len(lines)
             /\ MarkedLine(Line(i))
             /\ ~EndsInAmount(Line(i)) ) =>
                /\ pc' = "COLLECTING"
                /\ merchant_lines' = Append(merchant_lines, Line(i))
                /\ trans_date' = trans_date
                /\ post_date' = post_date
                /\ transactions' = transactions ]_vars
    /\ [](pc = "done" =>
            LET cycles == CyclesFrom(1)
            IN  /\ Len(transactions) = Len(cycles)
                /\ \A k \in 1..Len(cycles) :
                      LET h == cycles[k][1]
                          a == cycles[k][2]
                      IN  /\ transactions[k].transactionDate = HeaderDates(lines[h])[1]
                          /\ transactions[k].postedDate = HeaderDates(lines[h])[2]
                          /\ \A q \in (h + 1)..(a - 1) :
                                MarkedLine(lines[q]) =>
                                    Contains(transactions[k].description, lines[q]))

\* "Apr. 4 Apr. 7", "May. 12  May. 13", "4.50" gave one transaction, dated by
\* the first header and described by the second
C17_Witness ==
    /\ pc = "done"
    /\ lines = <<HdrApr, HdrMay, LnDebit>>
    /\ Len(transactions) = 1
    /\ transactions[1].transactionDate = <<"A","p","r","."," ","4">>
    /\ transactions[1].postedDate = <<"A","p","r","."," ","7">>
    /\ transactions[1].description = HdrMay
    /\ transactions[1].amount = 450

----------------------------------------------------------------------------
\* what is left of the parse: the lines not yet passed, and the exit of the loop
Remaining == (Len(lines) + 1 - i) + (IF pc = "done" THEN 0 ELSE 1)

(* C20: the parse of a finite section cannot go on for ever, because every
   step reduces what is left of it and that is never negative; every step of
   the scanning loop and of the collecting loop moves the shared index to the
   next line, so no line is looked at twice; and the step that emits a
   transaction reads an amount line and leaves the parser in SCANNING at the
   line after it. *)
C20_EachLineOnce ==
    /\ [](Remaining >= 0)
    /\ [][ /\ Remaining' < Remaining
           /\ (pc \in {"SCANNING", "COLLECTING"} /\ i < Len(lines)) => i' = i + 1
           /\ i' >= i
           /\ Len(transactions') > Len(transactions) =>
                 /\ pc = "COLLECTING"
                 /\ EndsInAmount(Line(i))
                 /\ pc' = "SCANNING"
                 /\ i' = i + 1 ]_vars

\* a parse that ended after emitting a transaction for the first three lines
\* and passing over a fourth line in SCANNING
C20_Witness ==
    /\ pc = "done"
    /\ Len(lines) = 4
    /\ i = 4
    /\ Len(transactions) = 1
    /\ CyclesFrom(1) = << <<1, 3>> >>

----------------------------------------------------------------------------
(* Inputs of the merge *)

MaxPrior == 2
MaxBatch == 2

Txn(td, pd, d, amt) ==
    [ transactionDate |-> td, postedDate |-> pd, description |-> d, amount |-> amt ]

\* rows the parser emits: the dates are date labels
TxnApr == Txn(<<"A","p","r","."," ","4">>, <<"A","p","r","."," ","7">>, <<"A">>, 5423)
TxnMai == Txn(<<"M","a","i","."," ","1">>, <<"M","a","i","."," ","2">>, <<"C">>, 0 - 1299)

TxnPool == {TxnApr, TxnMai}

Batches == UNION {[1..n -> TxnPool] : n \in 0..MaxBatch}

OldTxn(d) == Txn(<<"D","e","c","."," ","3">>, <<"D","e","c","."," ","5">>, d, 100)

\* rows of earlier ledgers, in years before and after the assumed one, with
\* a month label outside the table and with a Year cell that is no integer
RowPool ==
    { with_month(OldTxn(<<"P">>), IntCell(2024), <<"D","e","c">>),
      with_month(OldTxn(<<"Q">>), IntCell(2024), <<"D","e","c">>),
      with_month(OldTxn(<<"P">>), IntCell(2025), <<"J","a","n">>),
      with_month(OldTxn(<<"P">>), IntCell(2025), <<"A","p","r">>),
      with_month(OldTxn(<<"P">>), IntCell(2026), <<"J","a","n">>),
      with_month(OldTxn(<<"P">>), IntCell(2025), <<"M","a","i">>),
      with_month(OldTxn(<<"P">>), TextCell(<<"n","/","a">>), <<"A","p","r">>) }

Ledgers == UNION {[1..n -> RowPool] : n \in 0..MaxPrior}

InitMerge ==
    /\ lines = <<>>
    /\ i = 0
    /\ pc = "done"
    /\ trans_date = <<>>
    /\ post_date = <<>>
    /\ merchant_lines = <<>>
    /\ transactions = <<>>
    /\ log_file \in {written(rows) : rows \in Ledgers} \cup {NoFile}
    /\ new_df = <<>>
    /\ existing_df = <<>>
    /\ combined_df = <<>>
    /\ ret = <<>>
    /\ op = "none"
    /\ HF_AVAILABLE = FALSE
    /\ classifier = None
    /\ result = <<>>
    /\ Category = <<>>
    /\ full_text = <<>>
    /\ console = Silent
    /\ raised = <<>>
    /\ reads = 0
    /\ writes = 0

NextMerge ==
    \/ \E df \in Batches : AppendToLog(df)
    \/ Reprocess

SpecMerge == InitMerge /\ [][NextMerge]_vars

----------------------------------------------------------------------------
(* Reading a ledger *)

Count(seq, x) == Cardinality({k \in 1..Len(seq) : seq[k] = x})

Elems(seq) == {seq[k] : k \in 1..Len(seq)}

SameBag(s1, s2) ==
    /\ Len(s1) = Len(s2)
    /\ \A x \in Elems(s1) \cup Elems(s2) : Count(s1, x) = Count(s2, x)

\* the transaction a ledger row wraps
TxnOf(r) == Txn(r.transactionDate, r.postedDate, r.description, r.amount)

\* a call with a non-empty batch has run
Merged == op \in {"append", "reprocess"} /\ new_df # <<>>

IsIntYear(r) == r.Year[1] = "int"
InTable(m)   == \E k \in 1..12 : month_order[k] = m
\* Jan = 0 ... Dec = 11
Calendar(m)  == Cardinality({k \in 1..12 : \E n \in (k + 1)..12 : month_order[n] = m})
WellKeyed(r) == IsIntYear(r) /\ InTable(r.Month)

\* (year, month index) of a is smaller than that of b
Earlier(a, b) ==
    \/ a.Year[2] < b.Year[2]
    \/ a.Year[2] = b.Year[2] /\ Calendar(a.Month) < Calendar(b.Month)

\* the text before the first period of a date label
LabelOf(date) ==
    CHOOSE m \in {Slice(date, 1, n) : n \in 0..(Len(date) - 1)} :
        /\ date[Len(m) + 1] = "."
        /\ \A q \in 1..Len(m) : m[q] # "."

----------------------------------------------------------------------------
(* C2: merging the same non-empty batch a second time leaves the ledger as the
   first merge left it: the same rows in the same order. *)
C2_Idempotent ==
    (op = "reprocess" /\ new_df # <<>>) => log_file.rows = existing_df

----------------------------------------------------------------------------
(* C3: after a non-empty batch is merged, the rows of the merged ledger that
   carry the reported (year, month) are exactly the batch's transactions, one
   row per transaction, whatever the prior ledger held for that group. *)
C3_ReplaceGroup ==
    Merged =>
        LET grp == SelectSeq(log_file.rows,
                             LAMBDA r : r.Year = ret[2] /\ r.Month = ret[3])
        IN  /\ log_file.rows = ret[1]
            /\ SameBag([k \in 1..Len(grp) |-> TxnOf(grp[k])], new_df)

\* the prior ledger held two rows of the group and a one-row batch replaced them
C3_Witness ==
    /\ Merged
    /\ Len(new_df) = 1
    /\ Cardinality({k \in 1..Len(existing_df) :
            existing_df[k].Year = ret[2] /\ existing_df[k].Month = ret[3]}) = 2
    /\ Cardinality({k \in 1..Len(log_file.rows) :
            log_file.rows[k].Year = ret[2] /\ log_file.rows[k].Month = ret[3]}) = 1

----------------------------------------------------------------------------
(* C4: after every merge the persisted ledger is in ascending (year, month
   index) order: of two rows with an integer year and a month of the table, the
   one with the smaller (year, month index) comes first. *)
C4_SortedByYearMonth ==
    Merged =>
        \A p, q \in 1..Len(log_file.rows) :
            ( /\ WellKeyed(log_file.rows[p]) /\ WellKeyed(log_file.rows[q])
              /\ Earlier(log_file.rows[p], log_file.rows[q]) ) => p < q

\* the prior ledger had Jan 2025 before Dec 2024; the merged one has them in order
C4_Witness ==
    /\ Merged
    /\ \E p, q \in 1..Len(existing_df) :
          /\ p < q
          /\ existing_df[p].Year = IntCell(2025) /\ existing_df[p].Month = <<"J","a","n">>
          /\ existing_df[q].Year = IntCell(2024) /\ existing_df[q].Month = <<"D","e","c">>
    /\ \E p, q \in 1..Len(log_file.rows) :
          /\ p < q
          /\ log_file.rows[p].Year = IntCell(2024) /\ log_file.rows[p].Month = <<"D","e","c">>
          /\ log_file.rows[q].Year = IntCell(2025) /\ log_file.rows[q].Month = <<"J","a","n">>

----------------------------------------------------------------------------
(* C5: in the merged ledger every row whose month label is not in the table, or
   whose year is not an integer, comes after every row with an integer year and
   a month of the table, rows of later years included. *)
C5_InvalidLast ==
    Merged =>
        \A p, q \in 1..Len(log_file.rows) :
            (~WellKeyed(log_file.rows[p]) /\ WellKeyed(log_file.rows[q])) => q < p

----------------------------------------------------------------------------
(* C9: every row a merge appends carries one group key: the year 2025 and the
   text before the period of the first transaction's transactionDate, whatever
   the months of the other transactions' dates. *)
C9_GroupKey ==
    Merged =>
        LET y == IntCell(2025)
            m == LabelOf(new_df[1].transactionDate)
        IN  /\ ret[2] = y
            /\ ret[3] = m
            /\ \A k \in 1..Len(new_df) :
                  Count(ret[1], [ Year |-> y, Month |-> m,
                                  transactionDate |-> new_df[k].transactionDate,
                                  postedDate |-> new_df[k].postedDate,
                                  description |-> new_df[k].description,
                                  amount |-> new_df[k].amount ])
                      >= Count(new_df, new_df[k])
            /\ Cardinality({j \in 1..Len(ret[1]) : ret[1][j].Year = y /\ ret[1][j].Month = m})
                  = Len(new_df)

\* a batch that opens in April and holds a row dated "Mai. 1": both rows are Apr rows
C9_Witness ==
    /\ Merged
    /\ Len(new_df) = 2
    /\ LabelOf(new_df[1].transactionDate) = <<"A","p","r">>
    /\ LabelOf(new_df[2].transactionDate) = <<"M","a","i">>
    /\ \E j \in 1..Len(ret[1]) :
          /\ ret[1][j].transactionDate = new_df[2].transactionDate
          /\ ret[1][j].Month = <<"A","p","r">>

----------------------------------------------------------------------------
(* C10 as stated: a call with an empty batch leaves the file as it was,
   returns the prior ledger as the merged ledger and reports no group. *)
C10_EmptyReturnsPrior ==
    [][ (op = "none" /\ op' = "append" /\ new_df' = <<>>) =>
            /\ log_file' = log_file
            /\ Len(ret') = 3
            /\ ret'[1] = read_log(log_file)
            /\ ret'[2] = None /\ ret'[3] = None ]_vars

(* C10 as amended: a call with an empty batch leaves the file as it was (absent
   if it was absent) and returns nothing: neither a ledger nor a group. *)
C10_EmptyIsNoOp ==
    [][ ((op = "none" /\ op' = "append") \/ (op = "append" /\ op' = "reprocess"))
        /\ new_df' = <<>> =>
            (log_file' = log_file /\ ret' = <<>>) ]_vars

\* an empty batch was handed to a ledger of two rows that are out of order
C10_Witness ==
    /\ op = "append"
    /\ new_df = <<>>
    /\ ret = <<>>
    /\ Len(log_file.rows) = 2
    /\ WellKeyed(log_file.rows[1]) /\ WellKeyed(log_file.rows[2])
    /\ Earlier(log_file.rows[2], log_file.rows[1])

----------------------------------------------------------------------------
\* the row belongs to another group than the one the merge reported
OtherGroup(r) == ~(r.Year = ret[2] /\ r.Month = ret[3])

(* C18: after a non-empty batch is merged, every row of the prior ledger whose
   (Year, Month) is not the batch's group is in the merged ledger as often as
   it was in the prior one, with the same fields; and every row of the merged
   ledger is either such a row or one of the batch's transactions tagged with
   the group. *)
C18_OtherGroupsUntouched ==
    Merged =>
        /\ \A x \in Elems(existing_df) :
              OtherGroup(x) => Count(log_file.rows, x) = Count(existing_df, x)
        /\ \A x \in Elems(log_file.rows) :
              IF OtherGroup(x) THEN x \in Elems(existing_df)
              ELSE TxnOf(x) \in Elems(new_df)

\* the prior ledger held a row of the batch's group and a row of another month of
\* the same year; the merge kept the second and dropped the first
C18_Witness ==
    /\ Merged
    /\ Len(existing_df) = 2
    /\ \E p, q \in 1..2 :
          /\ ~OtherGroup(existing_df[p])
          /\ OtherGroup(existing_df[q])
          /\ existing_df[q].Year = ret[2]
          /\ existing_df[q] \in Elems(log_file.rows)
          /\ existing_df[p] \notin Elems(log_file.rows)
    /\ Len(log_file.rows) = 1 + Len(new_df)

----------------------------------------------------------------------------
\* rows a and b have the same (year, month index) sort key
SameKey(a, b) ==
    IF WellKeyed(a) /\ WellKeyed(b)
    THEN a.Year[2] = b.Year[2] /\ Calendar(a.Month) = Calendar(b.Month)
    ELSE /\ IsIntYear(a) = IsIntYear(b)
         /\ InTable(a.Month) = InTable(b.Month)
         /\ ~WellKeyed(a) /\ ~WellKeyed(b)
         /\ IsIntYear(a) => a.Year[2] = b.Year[2]

(* C19: in the merged ledger the batch's transactions stand in batch order, the
   retained prior rows that have one sort key stand in the order the prior
   ledger had them in, and a retained prior row stands before every batch row
   that has its sort key. *)
C19_StableOrder ==
    Merged =>
        LET rows  == log_file.rows
            batch == SelectSeq(rows, LAMBDA r : ~OtherGroup(r))
            prior == SelectSeq(existing_df, OtherGroup)
        IN  /\ [k \in 1..Len(batch) |-> TxnOf(batch[k])] = new_df
            /\ \A p, q \in 1..Len(prior) :
                  (p < q /\ SameKey(prior[p], prior[q]) /\ prior[p] # prior[q]) =>
                      \E m, n \in 1..Len(rows) :
                          m < n /\ rows[m] = prior[p] /\ rows[n] = prior[q]
            /\ \A m, n \in 1..Len(rows) :
                  (OtherGroup(rows[m]) /\ ~OtherGroup(rows[n]) /\ SameKey(rows[m], rows[n]))
                      => m < n

----------------------------------------------------------------------------
(* Inputs of the categorization *)

MaxCatRows == 2

DescUber    == <<"U","B","E","R"," ","T","R","I","P"," ","1","2",".","3","4">>
DescNetflix == <<"N","e","t","f","l","i","x",".","c","o","m">>
DescPresto  == <<"P","R","E","S","T","O"," ","F","A","R","E">>
DescYogurt  == <<"H","I"," ","Y","O","G","U","R","T">>
DescLoblaws == <<"L","O","B","L","A","W","S">>
DescDental  == <<"D","E","N","T","A","L"," ","C","L","I","N","I","C">>
DescAcme    == <<"A","C","M","E"," ","C","O","R","P">>
DescEmpty   == <<>>

\* descriptions as " ".join leaves them: some match one category, some several,
\* some none
DescPool == {DescUber, DescNetflix, DescPresto, DescYogurt, DescLoblaws, DescDental,
             DescAcme, DescEmpty}

CatFrames ==
    UNION {[1..n -> {Txn(<<"A","p","r","."," ","4">>, <<"A","p","r","."," ","7">>, d, 100) : d \in DescPool}] : n \in 1..MaxCatRows}

\* scores around the threshold, in hundredths
Scores == {69, 70, 71}

\* the external classifier raises, returns empty lists, or ranks a label first
\* with one of the scores and another label second with the rest
ClassifierResults ==
    {Raise, Outcome(FALSE, <<>>, <<>>)} \cup
    { Outcome(FALSE, <<candidate_labels[n], candidate_labels[(n % 9) + 1]>>,
                     <<sc, 100 - sc>>) : n \in 1..9, sc \in Scores }

InitCat ==
    /\ lines = <<>>
    /\ i = 0
    /\ pc = "done"
    /\ trans_date = <<>>
    /\ post_date = <<>>
    /\ merchant_lines = <<>>
    /\ transactions \in CatFrames
    /\ log_file = NoFile
    /\ new_df = <<>>
    /\ existing_df = <<>>
    /\ combined_df = <<>>
    /\ ret = <<>>
    /\ op = "none"
    /\ HF_AVAILABLE \in BOOLEAN
    /\ classifier = None
    /\ result = <<>>
    /\ Category = <<>>
    /\ full_text = <<>>
    /\ console = Silent
    /\ raised = <<>>
    /\ reads = 0
    /\ writes = 0

NextCat == AddCategories(ClassifierResults)

SpecCat == InitCat /\ [][NextCat]_vars

----------------------------------------------------------------------------
(* Reading the keyword table *)

\* the order of the categories
TableOrder ==
    << "Food & Dining", "Transportation", "Shopping", "Entertainment", "Subscriptions",
       "Transfer", "ATM/Cash", "Healthcare", "Groceries", "Miscellaneous" >>

\* character a of a description is character b of a keyword, whatever its case
Folds(a, b) == a = b \/ \E k \in 1..26 : a = UpperSeq[k] /\ b = LowerSeq[k]

\* keyword kw occurs in description d
Occurs(kw, d) ==
    \E p \in 1..(Len(d) - Len(kw) + 1) :
        \A q \in 1..Len(kw) : Folds(d[p + q - 1], kw[q])

\* some keyword of the category called name occurs in d
Hit(name, d) ==
    \E c \in 1..Len(categories) :
        /\ categories[c].name = name
        /\ \E n \in 1..Len(categories[c].keywords) : Occurs(categories[c].keywords[n], d)

\* the first category of the table order with a keyword in d; Miscellaneous when none
Earliest(d) ==
    LET hits == {n \in 1..Len(TableOrder) : Hit(TableOrder[n], d)}
    IN  IF hits = {} THEN "Miscellaneous"
        ELSE TableOrder[CHOOSE n \in hits : \A m \in hits : n <= m]

\* Earliest, worked out once for each description of the pool
EarliestOf == [d \in DescPool |-> Earliest(d)]

(* C12: the rule pass gives every description the first category of the table
   order (Food & Dining, Transportation, Shopping, Entertainment, Subscriptions,
   Transfer, ATM/Cash, Healthcare, Groceries, Miscellaneous) one of whose
   keywords occurs in the lowercased description, and Miscellaneous when none
   does; "UBER TRIP 12.34" gets Transportation, with or without the classifier. *)
C12_FirstMatch ==
    pc = "categorized" =>
        \A k \in 1..Len(transactions) :
            LET d == transactions[k].description
            IN  /\ classifier = None => Category[k] = EarliestOf[d]
                /\ EarliestOf[d] # "Miscellaneous" => Category[k] = EarliestOf[d]
                /\ d = DescUber => Category[k] = "Transportation"

\* without the classifier, "UBER TRIP 12.34" got Transportation and "PRESTO FARE",
\* which has keywords of Food & Dining and of Transportation, got Food & Dining
C12_Witness ==
    /\ pc = "categorized"
    /\ classifier = None
    /\ Len(transactions) = 2
    /\ transactions[1].description = DescUber /\ Category[1] = "Transportation"
    /\ transactions[2].description = DescPresto /\ Category[2] = "Food & Dining"
    /\ Hit("Transportation", DescPresto)

----------------------------------------------------------------------------
(* C13: for a description the rule pass leaves at Miscellaneous, the category is
   the classifier's first label when the classifier is loaded, its call
   returned a ranking and the first score is at least 0.70; it is
   Miscellaneous when the classifier is not loaded, when the call raised or
   returned nothing usable, or when the first score is below 0.70; and no
   exception leaves the categorization. *)
C13_SafeFallback ==
    pc = "categorized" =>
        /\ raised = <<>>
        /\ Len(Category) = Len(transactions)
        /\ \A k \in 1..Len(transactions) :
              EarliestOf[transactions[k].description] = "Miscellaneous" =>
                  LET r == result[k].res
                  IN  /\ classifier = None => Category[k] = "Miscellaneous"
                      /\ classifier # None =>
                            /\ result[k].called
                            /\ Category[k] =
                                  IF ~r.raises /\ r.labels # <<>> /\ r.scores[1] >= 70
                                  THEN r.labels[1]
                                  ELSE "Miscellaneous"

\* with the classifier loaded, one unmatched description got the first label at
\* a score of exactly 0.70 and another stayed Miscellaneous because the call raised
C13_Witness ==
    /\ pc = "categorized"
    /\ classifier # None
    /\ Len(transactions) = 2
    /\ EarliestOf[transactions[1].description] = "Miscellaneous"
    /\ EarliestOf[transactions[2].description] = "Miscellaneous"
    /\ result[1].res.scores = <<70, 30>>
    /\ Category[1] = result[1].res.labels[1]
    /\ Category[1] # "Miscellaneous"
    /\ result[2].res.raises
    /\ Category[2] = "Miscellaneous"

----------------------------------------------------------------------------
(* Inputs of a run of main *)

MaxSegs == 4

\* pieces of page text: the start anchor on a line of its own, a header line,
\* a header with its amount line, the subtotal line, an amount line that runs
\* into the subtotal marker, and a column heading followed by blank lines
SegAnchor == Anchor \o <<"\n">>
SegHdr    == HdrApr \o <<"\n">>
SegTxn    == HdrApr \o <<"\n">> \o <<"S","T","O","R","E"," ","4",".","5","0">> \o <<"\n">>
SegSub    == SubtotalMarker \o <<" ","X">> \o <<"\n">>
SegMid    == <<"U","B","E","R"," ","9",".","9","9"," ">> \o SubtotalMarker \o <<" ","X">> \o <<"\n">>
SegPad    == <<"D","A","T","E","\n"," ","\n","\n","\n","\n","\n","\n","\n","\n","\n","\n","\n","\n","\n","\n","\n","\n","\n","\n","\n">>

SegPool == {SegAnchor, SegHdr, SegTxn, SegSub, SegMid, SegPad}

RECURSIVE Flat(_)
Flat(segs) == IF segs = <<>> THEN <<>> ELSE segs[1] \o Flat(Tail(segs))

Docs == {Flat(segs) : segs \in UNION {[1..n -> SegPool] : n \in 0..MaxSegs}}

\* a row of an earlier run, with its Category column
Labeled(t, c) == t @@ [Category |-> c]

\* no log file yet, or one that holds a row of the statement's month and an
\* older row after it
RunLedgers ==
    { NoFile,
      written(<< with_month(Labeled(OldTxn(<<"P">>), "Shopping"),
                            IntCell(AssumedYear), <<"A","p","r">>),
                 with_month(Labeled(OldTxn(<<"Q">>), "Shopping"),
                            IntCell(2024), <<"D","e","c">>) >>) }

\* what the external classifier does in a run: it raises, or it is just confident
RunResults ==
    { Raise, Outcome(FALSE, <<"Shopping", "Groceries">>, <<70, 30>>) }

InitRun ==
    /\ lines = <<>>
    /\ i = 0
    /\ pc = "main"
    /\ trans_date = <<>>
    /\ post_date = <<>>
    /\ merchant_lines = <<>>
    /\ transactions = <<>>
    /\ log_file \in RunLedgers
    /\ new_df = <<>>
    /\ existing_df = <<>>
    /\ combined_df = <<>>
    /\ ret = <<>>
    /\ op = "none"
    /\ HF_AVAILABLE \in BOOLEAN
    /\ classifier = None
    /\ result = <<>>
    /\ Category = <<>>
    /\ full_text \in Docs
    /\ console = Silent
    /\ raised = <<>>
    /\ reads = 0
    /\ writes = 0

NextRun ==
    \/ OpenSection
    \/ ScanSkip
    \/ ScanHeader
    \/ ScanOther
    \/ ScanEnd
    \/ CollectAmount
    \/ CollectFragment
    \/ CollectEnd
    \/ AddCategories(RunResults)
    \/ MainDebug
    \/ ReadLog
    \/ FilterLog
    \/ SortLog
    \/ SaveLog
    \/ MainSummary
    \/ Crash

SpecRun == InitRun /\ [][NextRun]_vars

----------------------------------------------------------------------------
(* Reading the document *)

\* sub stands in s at position p
StandsAt(sub, s, p) ==
    /\ p >= 1
    /\ p + Len(sub) - 1 <= Len(s)
    /\ \A q \in 1..Len(sub) : s[p + q - 1] = sub[q]

\* the first position at which sub stands in s, 0 when it stands nowhere
FirstAt(sub, s) ==
    IF \E p \in 1..Len(s) : StandsAt(sub, s, p)
    THEN CHOOSE p \in {q \in 1..Len(s) : StandsAt(sub, s, q)} :
            \A q \in {r \in 1..Len(s) : StandsAt(sub, s, r)} : p <= q
    ELSE 0

\* the start anchor stands somewhere in the document
HasAnchor == \E p \in 1..Len(full_text) : StandsAt(Anchor, full_text, p)

\* the text that follows the first start anchor
SectionText ==
    Slice(full_text, FirstAt(Anchor, full_text) + Len(Anchor), Len(full_text))

\* the run is over
Ended == pc \in {"exit", "raised", "crashed"}

\* the section was found and split into lines
Opened == pc \notin {"main", "raised", "crashed"}

(* C14: when the document text does not contain the start anchor, the run ends
   with ValueError as its first step: no line is handed to the parser, no
   transaction exists, and the log file is neither read nor written. *)
C14_SectionNotFoundIsFatal ==
    /\ [](~HasAnchor =>
            /\ pc \in {"main", "raised", "crashed"}
            /\ lines = <<>> /\ i = 0 /\ transactions = <<>>
            /\ reads = 0 /\ writes = 0
            /\ console = Silent)
    /\ [](pc = "raised" => (~HasAnchor /\ raised = ValueError))
    /\ [][ ~HasAnchor =>
              /\ log_file' = log_file
              /\ (pc = "main" /\ pc' # "crashed") => pc' = "raised" ]_vars

\* a document with a header and an amount line but no anchor ended in ValueError,
\* with a log file in place
C14_Witness ==
    /\ pc = "raised"
    /\ raised = ValueError
    /\ full_text = SegTxn \o SegSub
    /\ log_file.exists
    /\ transactions = <<>>

----------------------------------------------------------------------------
(* C15 as claimed: a run that ends on the missing anchor has printed the dump of
   raw lines, and a run that ends with transactions has printed the summary. *)
C15_DumpOnSectionNotFound ==
    /\ pc = "raised" => console.kind = "debug"
    /\ (pc = "exit" /\ transactions # <<>>) => console.kind = "summary"

(* C15: a run that ends on the missing anchor has printed nothing; the dump of
   the first 20 raw lines of the section, stripped, is printed by a run that
   found the section and parsed no transaction from it; a run that parsed
   transactions prints the summary: how many were extracted, their month and
   year, and the size of the ledger. *)
C15_DumpOnEmptyBatch ==
    /\ pc = "raised" => console = Silent
    /\ (pc = "exit" /\ transactions = <<>>) =>
          /\ console.kind = "debug"
          /\ \E raw \in {split_lines(txn_section(full_text))} :
                /\ Len(console.lines) = (IF Len(raw) < 20 THEN Len(raw) ELSE 20)
                /\ \A k \in 1..Len(console.lines) : console.lines[k] = strip(raw[k])
    /\ (pc = "exit" /\ transactions # <<>>) =>
          /\ console.kind = "summary"
          /\ console.extracted = Len(transactions)
          /\ console.year = IntCell(AssumedYear)
          /\ console.month = LabelOf(transactions[1].transactionDate)
          /\ console.total = Len(log_file.rows)

\* the section had more than 20 raw lines and no transaction: 20 lines were printed
C15_Witness ==
    /\ pc = "exit"
    /\ transactions = <<>>
    /\ console.kind = "debug"
    /\ Len(console.lines) = 20
    /\ Len(split_lines(txn_section(full_text))) > 20
    /\ console.lines[2] = LnDate

----------------------------------------------------------------------------
\* where the subtotal marker first stands in the section, 0 when nowhere
MarkerAt == FirstAt(SubtotalMarker, SectionText)

\* the last line break of the section before the marker, 0 when there is none
BreakBeforeMarker ==
    IF \E p \in 1..(MarkerAt - 1) : SectionText[p] = "\n"
    THEN CHOOSE p \in 1..(MarkerAt - 1) :
            SectionText[p] = "\n" /\ \A q \in (p + 1)..(MarkerAt - 1) : SectionText[q] # "\n"
    ELSE 0

(* C16 as claimed: the lines handed to the parser are the non-empty lines of the
   section that end before the line on which the subtotal marker first stands;
   all of them when the marker stands nowhere. *)
C16_NoLineFromMarkerOn ==
    Opened =>
        lines = stripped_lines(split_lines(
                    IF MarkerAt = 0 THEN SectionText
                    ELSE Slice(SectionText, 1, BreakBeforeMarker)))

(* C16: the lines handed to the parser, the only text a transaction is made
   of, are the non-empty lines of the section text before the first subtotal
   marker; what stands on the marker's line before the marker is the last of
   them; when the marker stands nowhere they are the lines of the whole
   section. They are fixed when the section is opened and never change after. *)
C16_TruncatedAtMarker ==
    /\ [][ (pc = "main" /\ pc' = "SCANNING") =>
              lines' = stripped_lines(split_lines(
                          IF MarkerAt = 0 THEN SectionText
                          ELSE Slice(SectionText, 1, MarkerAt - 1))) ]_vars
    /\ [][ (pc # "main" \/ pc' # "SCANNING") => lines' = lines ]_vars
    /\ [](pc \in {"main", "raised"} => lines = <<>>)
    /\ [](Len(transactions) <= Cardinality({k \in 1..Len(lines) : EndsInAmount(lines[k])}))

\* "UBER 9.99 Subtotal for X" after a header gave a transaction of 9.99, and the
\* header and amount line after the marker gave none
C16_Witness ==
    /\ pc = "exit"
    /\ full_text = SegAnchor \o SegHdr \o SegMid \o SegTxn
    /\ lines = <<HdrApr, <<"U","B","E","R"," ","9",".","9","9">>>>
    /\ Len(transactions) = 1
    /\ transactions[1].amount = 999
    /\ transactions[1].description = <<"U","B","E","R">>

----------------------------------------------------------------------------
\* the rows a merge of batch into the rows prior has to write, in any order
Recomputed(prior, batch, rows) ==
    \E ym \in {get_month_year_from_transactions(batch)} :
        SameBag(rows,
                SelectSeq(prior, LAMBDA r : ~(r.Year = ym[1] /\ r.Month = ym[2]))
                    \o [k \in 1..Len(batch) |-> [Year |-> ym[1], Month |-> ym[2]] @@ batch[k]])

(* C11: in one run the log file is read at most once, as the first step of the
   merge and before any write; it is written at most once, by the last step of
   the merge, with the whole recomputed ledger in (year, month) order, and every
   run that gets past the merge has written it once; no other step changes the
   file, so a run that fails or is killed at any step before the write leaves
   the file as it was. *)
C11_AtMostOnceOverwrite ==
    /\ [](reads <= 1 /\ writes <= 1)
    /\ []((pc \in {"summary", "exit"} /\ transactions # <<>>) => writes = 1)
    /\ [](writes = 0 => (pc \notin {"summary", "exit"} \/ transactions = <<>>))
    /\ [][ reads' # reads =>
              /\ pc = "categorized" /\ writes = 0
              /\ existing_df' = log_file.rows ]_vars
    /\ [][ (log_file' # log_file \/ writes' # writes) =>
              /\ pc = "merge_save" /\ pc' = "summary"
              /\ writes' = writes + 1
              /\ log_file'.exists
              /\ Recomputed(log_file.rows, categorized_df, log_file'.rows)
              /\ \A p, q \in 1..Len(log_file'.rows) :
                    ( /\ WellKeyed(log_file'.rows[p]) /\ WellKeyed(log_file'.rows[q])
                      /\ Earlier(log_file'.rows[p], log_file'.rows[q]) ) => p < q ]_vars

\* a run was killed after the sort and before the write: the log file still
\* holds the two prior rows in their old order, read once and not written
C11_Witness ==
    /\ pc = "crashed"
    /\ reads = 1 /\ writes = 0
    /\ Len(combined_df) = 2
    /\ Len(log_file.rows) = 2
    /\ combined_df[1] = log_file.rows[2]
    /\ combined_df[2] \notin Elems(log_file.rows)
====
